---- MODULE Spec2Model ----
(***************************************************************************)
(* Model of the POST /remove-bg-zip/ handler of src/main.py.               *)
(*                                                                         *)
(* Text (file names, header values) is a sequence of one-character         *)
(* strings, so that lower(), endswith(), splitext() and basename() are     *)
(* computed rather than assumed.  An archive is the sequence of its        *)
(* entries in stored order.  A request is fixed by Init; the handler then  *)
(* runs step by step: CheckFile, ReadContents, OpenZip, one ProcessEntry   *)
(* per loop iteration, Finish.  A raise is the exception value handed to   *)
(* the handlers that enclose the raising line.                             *)
(***************************************************************************)
EXTENDS Naturals, Sequences, FiniteSets

\* Largest number of entries of an uploaded archive.
MaxEntries == 2

None == [type |-> "None"]

--------------------------------------------------------------------------
(* Text helpers *)

UpperChars == <<"A","B","C","D","E","F","G","H","I","J","K","L","M",
                "N","O","P","Q","R","S","T","U","V","W","X","Y","Z">>
LowerChars == <<"a","b","c","d","e","f","g","h","i","j","k","l","m",
                "n","o","p","q","r","s","t","u","v","w","x","y","z">>

\* str.lower() on one character
LowerChar(c) ==
    IF \E k \in 1..Len(UpperChars) : UpperChars[k] = c
    THEN LowerChars[CHOOSE k \in 1..Len(UpperChars) : UpperChars[k] = c]
    ELSE c

\* str.lower()
Lower(s) == [k \in 1..Len(s) |-> LowerChar(s[k])]

\* str.endswith(suffix)
EndsWith(s, suffix) ==
    /\ Len(s) >= Len(suffix)
    /\ SubSeq(s, Len(s) - Len(suffix) + 1, Len(s)) = suffix

\* str.rfind(c) + 1: the last position of c in s, 0 when absent
RFind(s, c) ==
    IF \E k \in 1..Len(s) : s[k] = c
    THEN CHOOSE k \in 1..Len(s) : s[k] = c /\ \A m \in (k+1)..Len(s) : s[m] # c
    ELSE 0

\* the position at which os.path.splitext cuts, 0 when there is no extension:
\* the last dot, when it lies after the last separator and is preceded, in
\* that last component, by a character that is not a dot
SplitPoint(p) ==
    LET sepIndex == RFind(p, "/")
        dotIndex == RFind(p, ".")
    IN IF /\ dotIndex > sepIndex
          /\ \E k \in (sepIndex + 1)..(dotIndex - 1) : p[k] # "."
       THEN dotIndex
       ELSE 0

\* os.path.splitext(p)[0]
SplitExtRoot(p) ==
    IF SplitPoint(p) = 0 THEN p ELSE SubSeq(p, 1, SplitPoint(p) - 1)

\* os.path.splitext(p)[1]
SplitExtExt(p) ==
    IF SplitPoint(p) = 0 THEN <<>> ELSE SubSeq(p, SplitPoint(p), Len(p))

\* os.path.basename(p)
Basename(p) == SubSeq(p, RFind(p, "/") + 1, Len(p))

--------------------------------------------------------------------------
(* Program constants *)

DotPng  == <<".","p","n","g">>
DotJpg  == <<".","j","p","g">>
DotJpeg == <<".","j","p","e","g">>
DotWebp == <<".","w","e","b","p">>
DotZip  == <<".","z","i","p">>

DotTxt == <<".","t","x","t">>
\* an allow-list with .txt in it
ALLOWED_EXTENSIONS_WithTxt == {DotPng, DotJpg, DotJpeg, DotWebp, DotTxt}

ALLOWED_EXTENSIONS == {DotPng, DotJpg, DotJpeg, DotWebp}

--------------------------------------------------------------------------
(* The requests considered *)

\* names of archive entries
AJpg     == <<"a",".","j","p","g">>
APng     == <<"a",".","p","n","g">>
NotesTxt == <<"n","o","t","e","s",".","t","x","t">>
DirWebp  == <<"d",".","v","/","B",".","W","E","B","P">>
EntryNames == {AJpg, APng, NotesTxt, DirWebp}

\* contents of archive entries; file_size is the length
EntryData == {<<>>, <<10>>, <<20, 21>>}

\* what the libraries do with an entry when the loop reaches it:
\*   "none"           decode, removal and PNG encoding all succeed
\*   "image"          Image.open / convert / remove / save raises; the
\*                    original bytes can be read again
\*   "image_readback" as "image", and reading the original bytes again
\*                    raises too
\*   "open"           zip_ref.open(file_info) itself raises
Faults == {"none", "image", "image_readback", "open"}

\* an entry that is never opened (it is empty, or it is notes.txt) has no
\* fault to show, and is listed once
ZipInfos ==
    { e \in [filename : EntryNames, data : EntryData, fault : Faults] :
        (e.data = <<>> \/ e.filename = NotesTxt) => e.fault = "none" }

RECURSIVE SeqsUpTo(_, _)
SeqsUpTo(S, n) ==
    IF n = 0 THEN {<<>>}
    ELSE LET shorter == SeqsUpTo(S, n - 1)
         IN shorter \cup { Append(s, e) : s \in {t \in shorter : Len(t) = n - 1}, e \in S }

\* the uploaded bytes: nothing, bytes that are no ZIP container, or a ZIP
\* container (at least its 22-byte end record) with its entries
EmptyBody == [size |-> 0, is_zip |-> FALSE, infolist |-> <<>>]
Malformed == [size |-> 5, is_zip |-> FALSE, infolist |-> <<>>]
Archive(entries) == [size |-> 22 + Len(entries), is_zip |-> TRUE, infolist |-> entries]
Bodies == {EmptyBody, Malformed} \cup { Archive(es) : es \in SeqsUpTo(ZipInfos, MaxEntries) }

\* names of the uploaded file
PhotosZip == <<"p","h","o","t","o","s",".","z","i","p">>
UpperZip  == <<"u","p","/","D","A","T","A",".","Z","I","P">>
UploadNames == {<<>>, PhotosZip, UpperZip, NotesTxt}

UploadFiles ==
    {None} \cup { [type |-> "UploadFile", filename |-> n, contents |-> b] :
                    n \in UploadNames, b \in Bodies }

--------------------------------------------------------------------------
(* Exceptions and responses *)

\* status_code is kept as text, as it appears in a message
HTTPException(code, text) ==
    [type |-> "HTTPException", status_code |-> code, detail |-> text]

BadZipFile == [type |-> "BadZipFile"]

\* what the framework sends for an HTTPException that leaves the handler
ErrorResponse(exc) ==
    [type |-> "Response", status_code |-> exc.status_code, detail |-> exc.detail,
     media_type |-> "application/json", headers |-> None, body |-> <<>>]

\* str(e)
StrExc(exc) ==
    IF exc.type = "HTTPException"
    THEN <<exc.status_code, ": ">> \o exc.detail
    ELSE <<exc.type>>

\* the except clauses of the inner try: whatever is raised in its body
InnerExcept(exc) ==
    IF exc.type = "BadZipFile"
    THEN HTTPException("400", <<"Invalid ZIP file format">>)
    ELSE HTTPException("500", <<"Error processing file: ">> \o StrExc(exc))

\* the except clauses of the outer try
OuterExcept(exc) ==
    IF exc.type = "HTTPException"
    THEN exc
    ELSE HTTPException("500", <<"An unexpected error occurred">>)

--------------------------------------------------------------------------
(* The handler *)

VARIABLES file, pc, contents, out_zip, processed_files, pos, response

vars == <<file, pc, contents, out_zip, processed_files, pos, response>>

Init ==
    /\ file \in UploadFiles
    /\ pc = "check_file"
    /\ contents = None
    /\ out_zip = <<>>
    /\ processed_files = 0
    /\ pos = 0
    /\ response = None

\* a comparison that forgets lower()
EndsWithZipCaseSensitive(name) == EndsWith(name, DotZip)

\* file.filename.lower().endswith('.zip')
EndsWithZip(name) == EndsWith(Lower(name), DotZip)

\* the checks made before the body is read
FileError(f) ==
    IF f = None \/ f.filename = <<>>
    THEN HTTPException("400", <<"No file provided">>)
    ELSE IF ~EndsWithZip(f.filename)
    THEN HTTPException("400", <<"File must be a ZIP file">>)
    ELSE None

Raise(exc) ==
    /\ response' = ErrorResponse(exc)
    /\ pc' = "done"

CheckFile ==
    /\ pc = "check_file"
    /\ IF FileError(file) # None
       THEN Raise(FileError(file))
       ELSE pc' = "read" /\ UNCHANGED response
    /\ UNCHANGED <<file, contents, out_zip, processed_files, pos>>

ReadContents ==
    /\ pc = "read"
    /\ contents' = file.contents
    /\ IF file.contents.size = 0
       THEN Raise(OuterExcept(HTTPException("400", <<"The uploaded file is empty">>)))
       ELSE pc' = "open" /\ UNCHANGED response
    /\ out_zip' = <<>>
    /\ processed_files' = 0
    /\ UNCHANGED <<file, pos>>

OpenZip ==
    /\ pc = "open"
    /\ IF ~contents.is_zip
       THEN Raise(OuterExcept(InnerExcept(BadZipFile))) /\ UNCHANGED pos
       ELSE IF contents.infolist = <<>>
       THEN Raise(OuterExcept(InnerExcept(HTTPException("400", <<"ZIP file is empty">>))))
            /\ UNCHANGED pos
       ELSE pc' = "loop" /\ pos' = 1 /\ UNCHANGED response
    /\ UNCHANGED <<file, contents, out_zip, processed_files>>

\* a loop without the size test
IsEmptyEntryNever(info) == FALSE

\* file_info.file_size == 0
IsEmptyEntry(info) == Len(info.data) = 0

\* os.path.splitext(file_info.filename)[1].lower()
FileExt(info) == Lower(SplitExtExt(info.filename))

\* a name that keeps its extension
NewFilenameKeepsExt(name) == name

\* f"{base}.png" with base = os.path.splitext(file_info.filename)[0]
NewFilename(name) == SplitExtRoot(name) \o DotPng

\* the bytes result.save(..., format='PNG') leaves in img_byte_arr for the
\* image decoded from data: the PNG signature, then the picture
PngOf(data) == <<137, 80, 78, 71>> \o data

\* what is written for an entry that was processed
ProcessedEntry(info) ==
    [filename |-> NewFilename(info.filename), data |-> PngOf(info.data)]

\* a pass-through under the .png name
PassThroughEntryRenamed(info) ==
    [filename |-> SplitExtRoot(info.filename) \o DotPng, data |-> info.data]

\* what is written for an entry whose processing raised
PassThroughEntry(info) ==
    [filename |-> info.filename, data |-> info.data]

\* a writer that puts the new member first
WriteStrFirst(zip, member, src) ==
    <<[filename |-> member.filename, data |-> member.data, src |-> src]>> \o zip

\* out_zip.writestr(name, data): a new member after the members written so
\* far; src is the position in the input archive of the file_info the call
\* is made for
WriteStr(zip, member, src) ==
    Append(zip, [filename |-> member.filename, data |-> member.data, src |-> src])

\* the increment made for a processed entry
CountProcessed(n) == n + 1

\* a loop body that lets the exception go
EntryExceptPropagates(exc) == exc

\* "except Exception as e: ... continue" around one entry: the exception
\* that leaves the loop body
EntryExcept(exc) == None

IOError == [type |-> "OSError"]

ProcessEntry ==
    /\ pc = "loop"
    /\ pos <= Len(contents.infolist)
    /\ LET file_info == contents.infolist[pos]
           raised == IF file_info.fault \in {"image_readback", "open"}
                     THEN EntryExcept(IOError)
                     ELSE None
       IN IF IsEmptyEntry(file_info) \/ FileExt(file_info) \notin ALLOWED_EXTENSIONS
          THEN /\ pos' = pos + 1
               /\ UNCHANGED <<out_zip, processed_files, pc, response>>
          ELSE IF file_info.fault = "none"
          THEN /\ out_zip' = WriteStr(out_zip, ProcessedEntry(file_info), pos)
               /\ processed_files' = CountProcessed(processed_files)
               /\ pos' = pos + 1
               /\ UNCHANGED <<pc, response>>
          ELSE IF file_info.fault = "image"
          THEN /\ out_zip' = WriteStr(out_zip, PassThroughEntry(file_info), pos)
               /\ pos' = pos + 1
               /\ UNCHANGED <<processed_files, pc, response>>
          ELSE IF raised = None
          THEN /\ pos' = pos + 1
               /\ UNCHANGED <<out_zip, processed_files, pc, response>>
          ELSE /\ Raise(OuterExcept(InnerExcept(raised)))
               /\ UNCHANGED <<out_zip, processed_files, pos>>
    /\ UNCHANGED <<file, contents>>

\* the header of the successful response
ContentDisposition(name) ==
    <<"attachment; filename=processed_">> \o Basename(name)

Finish ==
    /\ pc = "loop"
    /\ pos > Len(contents.infolist)
    /\ IF processed_files = 0
       THEN Raise(OuterExcept(InnerExcept(
                HTTPException("400", <<"No valid images found in the ZIP file">>))))
       ELSE /\ response' = [type |-> "Response", status_code |-> "200", detail |-> <<>>,
                            media_type |-> "application/zip",
                            headers |-> [content_disposition |-> ContentDisposition(file.filename)],
                            body |-> out_zip]
            /\ pc' = "done"
    /\ UNCHANGED <<file, contents, out_zip, processed_files, pos>>

Next == CheckFile \/ ReadContents \/ OpenZip \/ ProcessEntry \/ Finish

Spec == Init /\ [][Next]_vars

TypeOK ==
    /\ pc \in {"check_file", "read", "open", "loop", "done"}
    /\ processed_files \in 0..MaxEntries
    /\ Len(out_zip) <= MaxEntries
    /\ (response = None) <=> (pc # "done")

--------------------------------------------------------------------------
(* Properties.  The classes of names below are written out by hand, so    *)
(* that they do not depend on the operators of the handler.               *)

\* upload names that end in .zip, whatever the case
ZipNamed == {PhotosZip, UpperZip}

\* entry names whose extension is .png, .jpg, .jpeg or .webp, whatever the case
RecognizedNames == {AJpg, APng, DirWebp}

\* the name of an entry with its extension replaced by .png
PngNameOf(name) ==
    IF name = DirWebp THEN <<"d",".","v","/","B",".","p","n","g">> ELSE APng

\* the request passes the four checks made before any entry is looked at
WellFormed ==
    /\ file # None
    /\ file.filename \in ZipNamed
    /\ file.contents.is_zip

\* the entries of the request
Entries == IF file = None THEN <<>> ELSE file.contents.infolist

\* the positions of the entries that the loop has dealt with
Handled == { k \in 1..Len(Entries) : pc \in {"loop", "done"} /\ k < pos }

\* entry k is non-empty, has a recognized extension, and ...
Candidate(k) == Entries[k].data # <<>> /\ Entries[k].filename \in RecognizedNames
\* ... decodes, loses its background and encodes
Succeeds(k) == Candidate(k) /\ Entries[k].fault = "none"
\* ... raises on decode, removal or encode, the original bytes being readable
FailsReadable(k) == Candidate(k) /\ Entries[k].fault = "image"
\* ... raises, with nothing to pass through
FailsDropped(k) == Candidate(k) /\ Entries[k].fault \in {"image_readback", "open"}

\* the loop is about to deal with entry k
AtEntry(k) == pc = "loop" /\ pos = k /\ k <= Len(Entries)

\* s is the beginning of t
IsPrefix(s, t) == Len(s) <= Len(t) /\ SubSeq(t, 1, Len(s)) = s

\* C1: a well-formed archive with entries of which none is processed is
\* answered with 400 "No valid images found in the ZIP file" and no archive.
C1_ZeroProcessedIs400 ==
    (pc = "done" /\ WellFormed /\ Entries # <<>> /\ processed_files = 0)
        => /\ response.status_code = "400"
           /\ response.detail = <<"No valid images found in the ZIP file">>
           /\ response.media_type # "application/zip"

\* C2: a non-empty body that is a valid container with zero entries is
\* answered with 400, never with 500.
C2_EmptyArchiveIs400 ==
    (pc = "done" /\ file # None /\ file.contents.size > 0
        /\ file.contents.is_zip /\ file.contents.infolist = <<>>)
        => response.status_code = "400"

C3_FirstViolation ==
    IF file = None \/ file.filename = <<>> THEN <<"No file provided">>
    ELSE IF file.filename \notin ZipNamed THEN <<"File must be a ZIP file">>
    ELSE IF file.contents.size = 0 THEN <<"The uploaded file is empty">>
    ELSE IF ~file.contents.is_zip THEN <<"Invalid ZIP file format">>
    ELSE <<>>

\* C3: a request that violates one or more of: file and name present, name
\* ends in .zip in any case, body non-empty, body a ZIP container, is answered
\* with 400 and the message of the first condition violated in that order,
\* and none of its entries is processed.
C3_ValidationOrder ==
    (C3_FirstViolation # <<>>)
        => /\ pc # "loop"
           /\ out_zip = <<>> /\ processed_files = 0
           /\ pc = "done" => /\ response.status_code = "400"
                             /\ response.detail = C3_FirstViolation

C3_Witness ==
    /\ pc = "done"
    /\ file # None /\ file.filename = NotesTxt /\ file.contents.size = 0
    /\ response.detail = <<"File must be a ZIP file">>

\* C4: an entry that is non-empty, has a recognized extension, raises while
\* being decoded, processed or encoded, and can be read again, is in the
\* output under its own name with its own bytes, and the step that deals
\* with it leaves processed_files as it was.
C4_PassThroughOnError ==
    /\ [](\A k \in Handled : FailsReadable(k) =>
            \E j \in 1..Len(out_zip) :
                /\ out_zip[j].src = k
                /\ out_zip[j].filename = Entries[k].filename
                /\ out_zip[j].data = Entries[k].data)
    /\ [][\A k \in 1..Len(Entries) : (AtEntry(k) /\ FailsReadable(k))
            => processed_files' = processed_files]_vars

C4_Witness ==
    /\ pc = "done" /\ response.status_code = "200"
    /\ \E k \in Handled : FailsReadable(k) /\ Entries[k].filename = AJpg

\* C5: when the request is well formed and one entry or more is processed
\* successfully, the answer is 200 with an archive that holds, for each such
\* entry, exactly one member, named as the entry with .png for its
\* extension, and processed_files is the number of such entries.
C5_OnePngPerProcessed ==
    (pc = "done" /\ WellFormed /\ \E k \in 1..Len(Entries) : Succeeds(k))
        => /\ response.status_code = "200"
           /\ response.media_type = "application/zip"
           /\ processed_files = Cardinality({k \in 1..Len(Entries) : Succeeds(k)})
           /\ \A k \in 1..Len(Entries) : Succeeds(k) =>
                /\ Cardinality({j \in 1..Len(response.body) : response.body[j].src = k}) = 1
                /\ \A j \in 1..Len(response.body) : response.body[j].src = k =>
                      /\ response.body[j].filename = PngNameOf(Entries[k].filename)
                      /\ EndsWith(response.body[j].filename, DotPng)
           /\ Cardinality({j \in 1..Len(response.body) : Succeeds(response.body[j].src)})
                = processed_files

C5_Witness ==
    /\ pc = "done" /\ response.status_code = "200"
    /\ processed_files = 2
    /\ \E k \in 1..Len(Entries) : Succeeds(k) /\ Entries[k].filename = DirWebp

\* C6: an entry of size 0, whatever its name and place, has no member in the
\* output, and the step that deals with it changes neither the output nor
\* processed_files and goes on to the next entry.
C6_EmptyEntrySkipped ==
    /\ [](\A j \in 1..Len(out_zip) : Entries[out_zip[j].src].data # <<>>)
    /\ [][\A k \in 1..Len(Entries) : (AtEntry(k) /\ Entries[k].data = <<>>)
            => /\ out_zip' = out_zip
               /\ processed_files' = processed_files
               /\ pc' = "loop" /\ pos' = k + 1]_vars

C6_Witness ==
    /\ pc = "done"
    /\ \E k \in Handled :
          /\ Entries[k].data = <<>> /\ Entries[k].filename = AJpg
          /\ \E j \in 1..Len(out_zip) : out_zip[j].src > k

\* C7: a non-empty entry whose extension is not recognized has no member in
\* the output and is not counted; photos.zip with a valid a.jpg and a
\* notes.txt is answered with 200, an archive holding a.png only, and
\* Content-Disposition: attachment; filename=processed_photos.zip.
C7_UnrecognizedDropped ==
    /\ [](\A j \in 1..Len(out_zip) :
            Entries[out_zip[j].src].filename \in RecognizedNames)
    /\ [][\A k \in 1..Len(Entries) :
            (AtEntry(k) /\ Entries[k].filename \notin RecognizedNames)
            => /\ out_zip' = out_zip
               /\ processed_files' = processed_files]_vars
    /\ []((/\ pc = "done" /\ file # None /\ file.filename = PhotosZip
           /\ file.contents.is_zip /\ Len(Entries) = 2
           /\ Entries[1].filename = AJpg /\ Succeeds(1)
           /\ Entries[2].filename = NotesTxt /\ Entries[2].data # <<>>)
          => /\ response.status_code = "200"
             /\ Len(response.body) = 1
             /\ response.body[1].filename = APng
             /\ response.headers.content_disposition =
                  <<"attachment; filename=processed_",
                    "p","h","o","t","o","s",".","z","i","p">>)

C7_Witness ==
    /\ pc = "done" /\ file # None /\ file.filename = PhotosZip
    /\ file.contents.is_zip /\ Len(Entries) = 2
    /\ Entries[1].filename = AJpg /\ Succeeds(1)
    /\ Entries[2].filename = NotesTxt /\ Entries[2].data = <<10>>
    /\ response.status_code = "200"
    /\ out_zip[1].filename = APng

\* C8: the step that deals with an entry whose processing raises, with or
\* without a second failure on reading it again, keeps what was written,
\* goes on to the next entry and answers nothing; a request is refused only
\* when it is malformed, has no entry, or has no processed entry.
C8_ErrorsContained ==
    /\ [][\A k \in 1..Len(Entries) :
            (AtEntry(k) /\ (FailsReadable(k) \/ FailsDropped(k)))
            => /\ IsPrefix(out_zip, out_zip')
               /\ FailsDropped(k) => out_zip' = out_zip
               /\ pc' = "loop" /\ pos' = k + 1
               /\ response' = None]_vars
    /\ []((pc = "done" /\ response.status_code # "200")
            => \/ C3_FirstViolation # <<>>
               \/ Entries = <<>>
               \/ \A k \in 1..Len(Entries) : ~Succeeds(k))

C8_Witness ==
    /\ pc = "done" /\ response.status_code = "200"
    /\ Len(Entries) = 2
    /\ FailsDropped(1) /\ Entries[1].fault = "image_readback"
    /\ Succeeds(2)
    /\ Len(response.body) = 1

\* C9: the members of the output are in the order of the entries they come
\* from, and no entry has two members.
C9_OrderPreserved ==
    /\ \A j \in 1..Len(out_zip) :
          /\ out_zip[j].src \in Handled
          /\ \/ /\ out_zip[j].filename = PngNameOf(Entries[out_zip[j].src].filename)
                /\ Succeeds(out_zip[j].src)
             \/ /\ out_zip[j].filename = Entries[out_zip[j].src].filename
                /\ out_zip[j].data = Entries[out_zip[j].src].data
    /\ \A j, k \in 1..Len(out_zip) : j < k => out_zip[j].src < out_zip[k].src
    /\ (pc = "done" /\ response.status_code = "200") => response.body = out_zip

C9_Witness ==
    /\ pc = "done" /\ response.status_code = "200"
    /\ Len(response.body) = 2
    /\ response.body[1].filename # response.body[2].filename

\* C10: when the names of the entries are pairwise distinct, so are the
\* names of the members of the output.
C10_DistinctOutputNames ==
    (\A j, k \in 1..Len(Entries) : j # k => Entries[j].filename # Entries[k].filename)
        => \A j, k \in 1..Len(out_zip) : j # k => out_zip[j].filename # out_zip[k].filename
====
